---- MODULE Spec2Model ----
(***************************************************************************)
(* A model of the prerender middleware (class Prerenderer): the request    *)
(* classifier shouldShowPrerenderedPage, the header/URL assembly and the   *)
(* outbound call of getPrerenderedPageResponse, and the orchestration of   *)
(* prerender with its optional cache read / cache write hooks.             *)
(*                                                                         *)
(* JavaScript strings are TLA+ strings (Len, \o and SubSeq work on them).  *)
(* A JavaScript value that may be a string, null or undefined is a record  *)
(* [t |-> "string" | "null" | "undefined", v |-> <the string or "">].      *)
(***************************************************************************)
EXTENDS Integers, Sequences, FiniteSets, TLC

-----------------------------------------------------------------------------
(* JavaScript values *)

JStr(s) == [t |-> "string", v |-> s]
JNull == [t |-> "null", v |-> ""]
JUndefined == [t |-> "undefined", v |-> ""]

\* JavaScript truthiness of a string | null | undefined value.
Truthy(x) == x.t = "string" /\ x.v # ""

-----------------------------------------------------------------------------
(* String helpers, after the String.prototype methods the code uses *)

CharAt(s, i) == SubSeq(s, i, i)

UpperCase == {"A", "B", "C", "D", "E", "F", "G", "H", "I", "J", "K", "L", "M",
              "N", "O", "P", "Q", "R", "S", "T", "U", "V", "W", "X", "Y", "Z"}

LowerOf == [c \in UpperCase |->
    CASE c = "A" -> "a" [] c = "B" -> "b" [] c = "C" -> "c" [] c = "D" -> "d"
      [] c = "E" -> "e" [] c = "F" -> "f" [] c = "G" -> "g" [] c = "H" -> "h"
      [] c = "I" -> "i" [] c = "J" -> "j" [] c = "K" -> "k" [] c = "L" -> "l"
      [] c = "M" -> "m" [] c = "N" -> "n" [] c = "O" -> "o" [] c = "P" -> "p"
      [] c = "Q" -> "q" [] c = "R" -> "r" [] c = "S" -> "s" [] c = "T" -> "t"
      [] c = "U" -> "u" [] c = "V" -> "v" [] c = "W" -> "w" [] c = "X" -> "x"
      [] c = "Y" -> "y" [] c = "Z" -> "z"]

RECURSIVE toLowerCase(_)
toLowerCase(s) ==
    IF s = "" THEN ""
    ELSE LET c == CharAt(s, 1)
         IN  (IF c \in UpperCase THEN LowerOf[c] ELSE c)
                 \o toLowerCase(SubSeq(s, 2, Len(s)))

\* s.indexOf(sub) !== -1
Includes(s, sub) ==
    \E i \in 1..(Len(s) - Len(sub) + 1) : SubSeq(s, i, i + Len(sub) - 1) = sub

startsWith(s, pre) ==
    Len(pre) <= Len(s) /\ SubSeq(s, 1, Len(pre)) = pre

endsWith(s, suf) ==
    Len(suf) <= Len(s) /\ SubSeq(s, Len(s) - Len(suf) + 1, Len(s)) = suf

\* The position of the first occurrence of the one-character string c in s,
\* or 0 when there is none.
FirstIndex(s, c) ==
    IF \E i \in 1..Len(s) : CharAt(s, i) = c
    THEN CHOOSE i \in 1..Len(s) :
            CharAt(s, i) = c /\ \A j \in 1..(i - 1) : CharAt(s, j) # c
    ELSE 0

Occurrences(s, c) == Cardinality({i \in 1..Len(s) : CharAt(s, i) = c})

-----------------------------------------------------------------------------
(* Rule catalog (constants.ts) *)

CRAWLER_USER_AGENTS == <<
    "googlebot", "Google-InspectionTool", "Yahoo! Slurp", "bingbot", "yandex",
    "baiduspider", "facebookexternalhit", "twitterbot", "rogerbot",
    "linkedinbot", "embedly", "quora link preview", "showyoubot", "outbrain",
    "pinterest/0.", "developers.google.com/+/web/snippet", "slackbot",
    "vkShare", "W3C_Validator", "redditbot", "Applebot", "WhatsApp",
    "flipboard", "tumblr", "bitlybot", "SkypeUriPreview", "nuzzel",
    "Discordbot", "Google Page Speed", "Qwantify", "pinterestbot",
    "Bitrix link preview", "XING-contenttabreceiver", "Chrome-Lighthouse",
    "TelegramBot", "SeznamBot", "screaming frog SEO spider", "AhrefsBot",
    "AhrefsSiteAudit", "Iframely" >>

EXTENSIONS_TO_IGNORE == <<
    ".js", ".css", ".xml", ".less", ".png", ".jpg", ".jpeg", ".gif", ".pdf",
    ".doc", ".txt", ".ico", ".rss", ".zip", ".mp3", ".rar", ".exe", ".wmv",
    ".doc", ".avi", ".ppt", ".mpg", ".mpeg", ".tif", ".wav", ".mov", ".psd",
    ".ai", ".xls", ".mp4", ".m4a", ".swf", ".dat", ".dmg", ".iso", ".flv",
    ".m4v", ".torrent", ".woff", ".woff2", ".ttf", ".svg", ".webmanifest",
    ".webp" >>

-----------------------------------------------------------------------------
(* Request descriptor: [method, headers, url], headers a function from the  *)
(* (lower-case) names present to their values, url a record of the parts    *)
(* of the oak request URL.                                                  *)

\* Headers.prototype.get: the value, or null when the header is absent.
\* Names are matched case-insensitively.
HeadersGet(headers, name) ==
    IF toLowerCase(name) \in DOMAIN headers
    THEN JStr(headers[toLowerCase(name)])
    ELSE JNull

\* URL.prototype.href of the request URL.
Href(url) == url.protocol \o "//" \o url.host \o url.pathname \o url.search

\* The value of the first `key=value` pair of a query string (without its
\* leading "?") whose key is `key`, or null: URLSearchParams.prototype.get.
RECURSIVE QueryGet(_, _)
QueryGet(query, key) ==
    IF query = "" THEN JNull
    ELSE LET amp  == FirstIndex(query, "&")
             pair == IF amp = 0 THEN query ELSE SubSeq(query, 1, amp - 1)
             rest == IF amp = 0 THEN "" ELSE SubSeq(query, amp + 1, Len(query))
             eq   == FirstIndex(pair, "=")
             k    == IF eq = 0 THEN pair ELSE SubSeq(pair, 1, eq - 1)
             val  == IF eq = 0 THEN "" ELSE SubSeq(pair, eq + 1, Len(pair))
         IN  IF pair # "" /\ k = key THEN JStr(val) ELSE QueryGet(rest, key)

\* url.searchParams.get(key)
SearchParamsGet(url, key) ==
    QueryGet(IF startsWith(url.search, "?")
             THEN SubSeq(url.search, 2, Len(url.search))
             ELSE url.search, key)

-----------------------------------------------------------------------------
(* Regular expressions: the patterns of the model are an optional leading   *)
(* "^" followed by literal characters; a pattern with an unbalanced         *)
(* parenthesis does not compile (new RegExp throws a SyntaxError).          *)

RegExpCompiles(source) == Occurrences(source, "(") = Occurrences(source, ")")

\* new RegExp(source).test(s), for a pattern that compiles.
RegExpTest(source, s) ==
    IF startsWith(source, "^")
    THEN startsWith(s, SubSeq(source, 2, Len(source)))
    ELSE Includes(s, source)

-----------------------------------------------------------------------------
(* Configuration of the Prerenderer singleton *)

\* A list-valued setting that was never set (undefined).
NotSet == [isArray |-> FALSE, items |-> << >>]

\* set whiteListed(whitelist): an array is kept, a single string becomes a
\* one-element array. A setter input is [array |-> BOOLEAN, items |-> Seq],
\* a single string s being [array |-> FALSE, items |-> <<s>>].
whiteListed(input) ==
    [isArray |-> TRUE,
     items |-> IF input.array THEN input.items ELSE << input.items[1] >>]

\* set blackListed(blacklist)
blackListed(input) ==
    [isArray |-> TRUE,
     items |-> IF input.array THEN input.items ELSE << input.items[1] >>]

-----------------------------------------------------------------------------
(* Request classifier: shouldShowPrerenderedPage.                           *)
(* Results are "true", "false" or "throws" (a pattern that does not compile *)
(* makes new RegExp throw out of the classifier).                           *)

\* A variant that compares the user agent as sent.
IsCrawler_CaseSensitive(userAgent) ==
    \E i \in 1..Len(CRAWLER_USER_AGENTS) :
        Includes(userAgent, CRAWLER_USER_AGENTS[i])

\* userAgent matches some crawler substring, compared in lower case.
IsCrawler(userAgent) ==
    \E i \in 1..Len(CRAWLER_USER_AGENTS) :
        Includes(toLowerCase(userAgent), toLowerCase(CRAWLER_USER_AGENTS[i]))

\* A variant that compares the path as sent.
IsIgnoredExtension_CaseSensitive(pathname) ==
    \E i \in 1..Len(EXTENSIONS_TO_IGNORE) :
        endsWith(pathname, EXTENSIONS_TO_IGNORE[i])

\* The lower-cased path ends with an ignored extension.
IsIgnoredExtension(pathname) ==
    \E i \in 1..Len(EXTENSIONS_TO_IGNORE) :
        endsWith(toLowerCase(pathname), EXTENSIONS_TO_IGNORE[i])

\* this._whitelist.every(w => new RegExp(w).test(request.url.href) === false)
\* from element i on: every() stops at the first element whose callback
\* returns false, and a throwing callback throws out of every().
RECURSIVE WhitelistEvery(_, _, _)
WhitelistEvery(items, i, request) ==
    IF i > Len(items) THEN "true"
    ELSE IF ~RegExpCompiles(items[i]) THEN "throws"
    ELSE IF RegExpTest(items[i], Href(request.url)) THEN "false"
    ELSE WhitelistEvery(items, i + 1, request)

\* A variant that tests the request URL only.
BlacklistedBy_UrlOnly(pattern, request) ==
    RegExpTest(pattern, Href(request.url))

\* The callback of this._blacklist.some(...), for a pattern that compiles.
BlacklistedBy(pattern, request) ==
    LET referer == HeadersGet(request.headers, "referer")
        blacklistedUrl == RegExpTest(pattern, Href(request.url))
        blacklistedReferer ==
            IF Truthy(referer) THEN RegExpTest(pattern, referer.v) ELSE FALSE
    IN  blacklistedUrl \/ blacklistedReferer

\* this._blacklist.some(...) from element i on.
RECURSIVE BlacklistSome(_, _, _)
BlacklistSome(items, i, request) ==
    IF i > Len(items) THEN "false"
    ELSE IF ~RegExpCompiles(items[i]) THEN "throws"
    ELSE IF BlacklistedBy(items[i], request) THEN "true"
    ELSE BlacklistSome(items, i + 1, request)

\* The provisional flag isRequestingPrerenderedPage.
WantsSnapshot(request) ==
    \/ Truthy(SearchParamsGet(request.url, "_escaped_fragment_"))
    \/ IsCrawler(HeadersGet(request.headers, "user-agent").v)
    \/ Truthy(HeadersGet(request.headers, "x-bufferbot"))

\* A variant in which an empty whitelist counts as no whitelist.
WhitelistRejects_EmptyPasses(whitelist, request) ==
    IF whitelist.isArray /\ Len(whitelist.items) > 0
    THEN WhitelistEvery(whitelist.items, 1, request)
    ELSE "false"

\* The whitelist gate: the request is rejected ("true"), passes ("false"),
\* or a pattern throws.
WhitelistRejects(whitelist, request) ==
    IF whitelist.isArray THEN WhitelistEvery(whitelist.items, 1, request)
    ELSE "false"

\* The blacklist gate.
BlacklistRejects(blacklist, request) ==
    IF blacklist.isArray THEN BlacklistSome(blacklist.items, 1, request)
    ELSE "false"

\* A variant without the user-agent rule.
shouldShowPrerenderedPage_NoUserAgentRule(request, whitelist, blacklist) ==
    IF request.method # "GET" /\ request.method # "HEAD" THEN "false"
    ELSE IF Truthy(HeadersGet(request.headers, "x-prerender")) THEN "false"
    ELSE IF IsIgnoredExtension(request.url.pathname) THEN "false"
    ELSE IF WhitelistRejects(whitelist, request) # "false"
         THEN (IF WhitelistRejects(whitelist, request) = "true"
               THEN "false" ELSE "throws")
    ELSE IF BlacklistRejects(blacklist, request) # "false"
         THEN (IF BlacklistRejects(blacklist, request) = "true"
               THEN "false" ELSE "throws")
    ELSE IF WantsSnapshot(request) THEN "true" ELSE "false"

shouldShowPrerenderedPage(request, whitelist, blacklist) ==
    IF ~Truthy(HeadersGet(request.headers, "user-agent")) THEN "false"
    ELSE IF request.method # "GET" /\ request.method # "HEAD" THEN "false"
    ELSE IF Truthy(HeadersGet(request.headers, "x-prerender")) THEN "false"
    ELSE IF IsIgnoredExtension(request.url.pathname) THEN "false"
    ELSE IF WhitelistRejects(whitelist, request) # "false"
         THEN (IF WhitelistRejects(whitelist, request) = "true"
               THEN "false" ELSE "throws")
    ELSE IF BlacklistRejects(blacklist, request) # "false"
         THEN (IF BlacklistRejects(blacklist, request) = "true"
               THEN "false" ELSE "throws")
    ELSE IF WantsSnapshot(request) THEN "true" ELSE "false"

-----------------------------------------------------------------------------
(* Snapshot request builder: buildApiUrl and the header assembly of         *)
(* getPrerenderedPageResponse.                                              *)

\* Characters that may not occur in an HTTP header name (a token).
Separators == {" ", "(", ")", "<", ">", "@", ",", ";", ":", "/", "[", "]",
               "?", "=", "{", "}"}

\* Headers.prototype.get(name) throws a TypeError unless name is a token.
ValidHeaderName(name) ==
    name # "" /\ \A i \in 1..Len(name) : CharAt(name, i) \notin Separators

\* `${value}` in a template literal.
TemplateString(x) ==
    IF x.t = "string" THEN x.v ELSE IF x.t = "null" THEN "null" ELSE "undefined"

\* new URL("https://" + hostPort) parses: the host is not empty and holds
\* no character that ends or breaks the authority.
ValidHostPort(hostPort) ==
    hostPort # "" /\ \A i \in 1..Len(hostPort) :
        CharAt(hostPort, i) \notin {" ", "/", "?", "<", ">", "[", "]"}

\* A message of the runtime's TypeError for an unparsable URL.
InvalidUrlMessage == "Invalid URL"

\* A message of the runtime's TypeError for an invalid header name.
InvalidHeaderNameMessage == "Invalid header name"

\* A variant that always inserts the separator.
buildApiUrl_AlwaysSlash(request, prerenderServiceUrl) ==
    LET prerenderUrl == prerenderServiceUrl
        forwardSlash == "/"
        protocol == "https"
        forwarded == HeadersGet(request.headers, "x-forwarded-host")
        hostPort == TemplateString(
            IF Truthy(forwarded) THEN forwarded
            ELSE HeadersGet(request.headers, "host"))
        fullUrl == protocol \o "://" \o toLowerCase(hostPort)
                       \o request.url.pathname \o request.url.search
    IN  IF ValidHostPort(hostPort)
        THEN [threw |-> FALSE, message |-> "",
              url |-> prerenderUrl \o forwardSlash \o fullUrl]
        ELSE [threw |-> TRUE, message |-> InvalidUrlMessage, url |-> ""]

\* buildApiUrl: [threw, url, message].
buildApiUrl(request, prerenderServiceUrl) ==
    LET prerenderUrl == prerenderServiceUrl
        forwardSlash == IF endsWith(prerenderUrl, "/") THEN "" ELSE "/"
        protocol == "https"
        forwarded == HeadersGet(request.headers, "x-forwarded-host")
        hostPort == TemplateString(
            IF Truthy(forwarded) THEN forwarded
            ELSE HeadersGet(request.headers, "host"))
        fullUrl == protocol \o "://" \o toLowerCase(hostPort)
                       \o request.url.pathname \o request.url.search
    IN  IF ValidHostPort(hostPort)
        THEN [threw |-> FALSE, message |-> "",
              url |-> prerenderUrl \o forwardSlash \o fullUrl]
        ELSE [threw |-> TRUE, message |-> InvalidUrlMessage, url |-> ""]

\* An object whose keys are header names: an empty one, one entry, a merge
\* in which the entries of `later` overwrite those of `earlier`.
EmptyObject == [k \in {} |-> JNull]
Entry(k, val) == [x \in {k} |-> val]
Assign(earlier, later) ==
    [k \in DOMAIN earlier \cup DOMAIN later |->
        IF k \in DOMAIN later THEN later[k] ELSE earlier[k]]

\* The argument the callback of req.headers.forEach receives for the header
\* `name`: Headers.prototype.forEach calls back with (value, name, headers),
\* and the callback declares one parameter, h.
ForEachArgument(headers, name) == headers[name]

\* The values h the forEach callback is called with.
ForwardedKeys(request) ==
    {ForEachArgument(request.headers, n) : n \in DOMAIN request.headers}

\* The forEach loop over the incoming headers: [threw, headers]. Every
\* iteration writes headers[h] = req.headers.get(h), which depends on h
\* alone, and a throwing iteration ends the whole attempt, so the result
\* does not depend on the iteration order.
ForwardHeaders(request) ==
    LET keys == {h \in ForwardedKeys(request) : h # "host"}
    IN  IF \E h \in keys : ~ValidHeaderName(h)
        THEN [threw |-> TRUE, headers |-> EmptyObject]
        ELSE [threw |-> FALSE,
              headers |-> [h \in keys |-> HeadersGet(request.headers, h)]]

\* The headers the code always sets, after the forwarded ones.
AlwaysSetHeaders(request, prerenderToken) ==
    Assign(Assign(Entry("User-Agent", HeadersGet(request.headers, "user-agent")),
                  Entry("Accept-Encoding", JStr("gzip"))),
           IF prerenderToken # ""
           THEN Entry("X-Prerender-Token", JStr(prerenderToken))
           ELSE EmptyObject)

\* The object the local constant `headers` refers to when the outbound call
\* is made: [threw, headers].
LocalHeaders(request, cfg) ==
    LET fwd == IF cfg.forwardHeaders
               THEN ForwardHeaders(request)
               ELSE [threw |-> FALSE, headers |-> EmptyObject]
    IN  [threw |-> fwd.threw,
         headers |-> Assign(fwd.headers,
                            AlwaysSetHeaders(request, cfg.prerenderToken))]

\* options.headers after Object.assign(options, <copy of the configured
\* options>): the object `headers` refers to, unless the configured options
\* have a headers entry of their own, which then replaces it.
OptionsHeaders(localHeaders, requestOptions) ==
    IF requestOptions.hasHeaders
    THEN [k \in DOMAIN requestOptions.headers |-> JStr(requestOptions.headers[k])]
    ELSE localHeaders

\* The synchronous part of getPrerenderedPageResponse, up to the call of
\* fetch: [threw, message, url, init], init the second argument of fetch.
BuildFetchCall(request, cfg) ==
    LET local == LocalHeaders(request, cfg)
        api == buildApiUrl(request, cfg.prerenderServiceUrl)
    IN  IF local.threw
        THEN [threw |-> TRUE, message |-> InvalidHeaderNameMessage,
              url |-> "", init |-> [headers |-> EmptyObject,
                                    scalars |-> EmptyObject, method |-> ""]]
        ELSE IF api.threw
        THEN [threw |-> TRUE, message |-> api.message,
              url |-> "", init |-> [headers |-> EmptyObject,
                                    scalars |-> EmptyObject, method |-> ""]]
        ELSE [threw |-> FALSE, message |-> "", url |-> api.url,
              init |-> [headers |-> OptionsHeaders(local.headers,
                                        cfg.prerenderServerRequestOptions),
                        scalars |-> cfg.prerenderServerRequestOptions.scalars,
                        method |-> "GET"]]

\* A variant in which Object.assign receives the configured options
\* themselves and `headers` is read from options afterwards, so the header
\* writes land in the configured headers mapping.
ConfiguredOptionsAfter_SharedHeaders(request, cfg) ==
    LET set == AlwaysSetHeaders(request, cfg.prerenderToken)
    IN  IF cfg.prerenderServerRequestOptions.hasHeaders
        THEN [cfg.prerenderServerRequestOptions EXCEPT
                !.headers = Assign(@, [k \in DOMAIN set |->
                                IF set[k].t = "string" THEN set[k].v ELSE "null"])]
        ELSE cfg.prerenderServerRequestOptions

\* this.prerenderServerRequestOptions once the header assembly has run:
\* Object.assign receives a JSON copy of it, and the header writes go to the
\* object the local constant `headers` refers to, so it is what it was.
ConfiguredOptionsAfter(request, cfg) == cfg.prerenderServerRequestOptions

CatchBlock_NoError(message) == [error |-> JNull, body |-> JNull]

\* The catch block of getPrerenderedPageResponse.
CatchBlock(message) == [error |-> JStr(message), body |-> JNull]

-----------------------------------------------------------------------------
(* Bounds and input domains *)

\* Requests handled one after the other by the singleton.
MaxRequests == 2

Headers(ua, host, extra) ==
    Assign(Assign(IF ua = "" THEN EmptyObject ELSE Entry("user-agent", ua),
                  Entry("host", host)), extra)

Url(host, pathname, search) ==
    [protocol |-> "https:", host |-> host, pathname |-> pathname,
     search |-> search]

Request(method, ua, host, pathname, search, extra) ==
    [method |-> method, headers |-> Headers(ua, host, extra),
     url |-> Url(host, pathname, search)]

\* The requests the orchestrator is run with.
Requests ==
    { Request("GET", "Mozilla/5.0", "host", "/public/x", "", EmptyObject),
      Request("GET", "GoogleBot", "host", "/public/x", "", EmptyObject),
      Request("GET", "GoogleBot", "example.com", "/private/x", "",
              Entry("accept", "gzip")),
      Request("POST", "GoogleBot", "host", "/public/x", "", EmptyObject),
      Request("GET", "", "host", "/public/x", "", Entry("x-bufferbot", "1")),
      Request("HEAD", "", "host", "/products/42", "?a=1&_escaped_fragment_=k",
              EmptyObject),
      Request("POST", "", "host", "/img/logo.PNG", "", EmptyObject),
      Request("GET", "Mozilla/5.0 (compatible; bingbot/2.0)", "host",
              "/products/42", "?b=1", EmptyObject) }

NoRequest == Request("", "", "", "", "", EmptyObject)

\* The requests the classifier and the URL builder are called with. Header
\* values are non-empty; "" stands for no user-agent header.
UserAgents ==
    {"", "Mozilla/5.0", "GoogleBot", "Mozilla/5.0 (compatible; bingbot/2.0)"}

Methods == {"GET", "HEAD", "POST"}

Paths == {"/public/x", "/private/x", "/admin/page", "/products/42",
          "/img/logo.PNG", "/public/admin", "/a"}

Searches == {"", "?_escaped_fragment_=", "?a=1&_escaped_fragment_=k", "?b=1"}

ExtraHeaders ==
    { EmptyObject,
      Entry("x-prerender", "1"),
      Entry("x-bufferbot", "1"),
      Entry("referer", "https://x/admin"),
      Entry("x-forwarded-host", "Shop.example.com"),
      Entry("x-forwarded-host", "host") }

AllRequests ==
    { Request(m, ua, "host", p, q, x) :
        m \in Methods, ua \in UserAgents, p \in Paths, q \in Searches,
        x \in ExtraHeaders }

Array(items) == [array |-> TRUE, items |-> items]
Single(s) == [array |-> FALSE, items |-> << s >>]

Whitelists ==
    { NotSet, whiteListed(Array(<< >>)), whiteListed(Array(<< "^/public/" >>)),
      whiteListed(Single("/public/")), whiteListed(Array(<< "(" >>)) }

Blacklists == { NotSet, blackListed(Array(<< "/admin" >>)) }

ProbeBlacklists ==
    Blacklists \cup { blackListed(Single("/admin")),
                      blackListed(Array(<< "/nothing", "/admin" >>)),
                      blackListed(Array(<< "(", "/admin" >>)) }

NoOptions == [hasHeaders |-> FALSE, headers |-> EmptyObject, scalars |-> EmptyObject]

RequestOptions ==
    { NoOptions,
      [NoOptions EXCEPT !.scalars = Entry("redirect", JStr("manual"))],
      [NoOptions EXCEPT !.hasHeaders = TRUE,
                        !.headers = Entry("X-Custom", "1")],
      [NoOptions EXCEPT !.hasHeaders = TRUE,
                        !.headers = Entry("User-Agent", "configured")] }

ServiceUrls == {"http://service.prerender.io/", "http://svc"}

ProbeServiceUrls == ServiceUrls \cup {"http://svc/", "http://svc/render", ""}

Tokens == {"", "tok"}

\* What the cache read hook can resolve to.
ReadResults ==
    [error : {JUndefined, JStr(""), JStr("stale")},
     body : {JStr(""), JStr("<cached>")}]

\* Messages of the errors collaborators can throw: error.message is any
\* string, the empty one of `new Error()` included.
Messages == {"", "connection refused"}

Statuses == {200, 503}

Texts == {"<html>", ""}

\* What the cache write hook can resolve to: nothing, or AfterRenderOptions.
WriteReturns == {"void", "cancelRender:true", "cancelRender:false"}

NextResults == {JUndefined, JStr("live")}

-----------------------------------------------------------------------------
(* State *)

VARIABLES
    config,     \* the settings of the Prerenderer singleton
    run,        \* run[r]: the call of prerender in progress in slot r
    handled,    \* the number of requests received so far
    probe       \* the last direct call of shouldShowPrerenderedPage or
                \* buildApiUrl, with its argument and its result

vars == << config, run, handled, probe >>

NoResult == [state |-> "none", error |-> JUndefined, body |-> JUndefined]

NoFetch == [url |-> "", init |-> [headers |-> EmptyObject,
                                  scalars |-> EmptyObject, method |-> ""]]

NoOutcome == [kind |-> "none", value |-> JUndefined]

NoWriteArgs == [request |-> NoRequest, error |-> JUndefined, body |-> JUndefined]

\* A slot no call of prerender is using.
Idle ==
    [pc |-> "idle",
     request |-> NoRequest,
     eligible |-> "none",         \* what shouldShowPrerenderedPage returned
     readCalls |-> 0,             \* invocations of the cache read hook
     readResult |-> NoResult,     \* what the cache read hook resolved to
     retrieveCalls |-> 0,         \* invocations of getPrerenderedPageResponse
     fetchCalls |-> 0,            \* invocations of fetch
     fetchArgs |-> NoFetch,       \* the arguments of fetch
     status |-> 0,                \* the status of the response
     fault |-> "none",            \* where the retrieval attempt threw
     thrown |-> "",               \* the message of what it threw
     text |-> "",                 \* the text of the response
     retrieval |-> NoResult,      \* what getPrerenderedPageResponse returned
     writeCalls |-> 0,            \* invocations of the cache write hook
     writeArgs |-> NoWriteArgs,   \* the arguments of the cache write hook
     writeReturn |-> "none",      \* what the cache write hook resolved to
     nextCalls |-> 0,             \* invocations of the continuation
     outcome |-> NoOutcome]       \* how prerender ended

Configs ==
    [resolveCache : BOOLEAN, writeCache : BOOLEAN,
     whitelist : Whitelists, blacklist : Blacklists,
     forwardHeaders : BOOLEAN, prerenderToken : Tokens,
     prerenderServiceUrl : ServiceUrls,
     prerenderServerRequestOptions : RequestOptions]

NoApiUrl == [threw |-> FALSE, message |-> "", url |-> ""]

NoProbe == [kind |-> "none", request |-> NoRequest, result |-> "none",
            api |-> NoApiUrl]

Init ==
    /\ config \in Configs
    /\ run = [r \in {1} |-> Idle]
    /\ handled = 0
    /\ probe = NoProbe

-----------------------------------------------------------------------------
(* prerender, one action per stretch of code between two awaits.            *)
(* The operators below map the record of a run to its record after the      *)
(* stretch.                                                                 *)

Returned(error, body) == [state |-> "returned", error |-> error, body |-> body]

\* return await next()
CallNext(rec) == [rec EXCEPT !.nextCalls = @ + 1, !.pc = "awaitNext"]

\* throw out of prerender
Throw(rec, message) ==
    [rec EXCEPT !.outcome = [kind |-> "failure", value |-> JStr(message)],
                !.pc = "done"]

\* return body
ReturnBody(rec, body) ==
    [rec EXCEPT !.outcome = [kind |-> "body", value |-> body], !.pc = "done"]

\* getPrerenderedPageResponse up to `await fetch(...)`; a throw is caught and
\* the call returns at once.
StartRetrieval(rec, cfg) ==
    LET call == BuildFetchCall(rec.request, cfg)
    IN  IF call.threw
        THEN [rec EXCEPT !.retrieveCalls = @ + 1,
                         !.fault = "build",
                         !.thrown = call.message,
                         !.retrieval = [state |-> "returned"] @@ CatchBlock(call.message),
                         !.pc = "retrieved"]
        ELSE [rec EXCEPT !.retrieveCalls = @ + 1,
                         !.fetchCalls = @ + 1,
                         !.fetchArgs = [url |-> call.url, init |-> call.init],
                         !.pc = "awaitFetch"]

IsHit_IgnoreError(result) == Truthy(result.body)

\* Whether a cache read result is a hit: !error && !!body
IsHit(result) == ~Truthy(result.error) /\ Truthy(result.body)

\* A variant that retrieves without consulting the cache read hook.
Enter_SkipRead(rec, cfg) ==
    LET show == shouldShowPrerenderedPage(rec.request, cfg.whitelist, cfg.blacklist)
        seen == [rec EXCEPT !.eligible = show]
    IN  IF show = "throws" THEN Throw(seen, "Invalid regular expression")
        ELSE IF show = "false" THEN CallNext(seen)
        ELSE StartRetrieval(seen, cfg)

\* The start of prerender: the classifier, then the continuation, the cache
\* read hook or the retrieval.
Enter(rec, cfg) ==
    LET show == shouldShowPrerenderedPage(rec.request, cfg.whitelist, cfg.blacklist)
        seen == [rec EXCEPT !.eligible = show]
    IN  IF show = "throws" THEN Throw(seen, "Invalid regular expression")
        ELSE IF show = "false" THEN CallNext(seen)
        ELSE IF cfg.resolveCache
             THEN [seen EXCEPT !.readCalls = @ + 1, !.pc = "awaitRead"]
        ELSE StartRetrieval(seen, cfg)

AfterRead_WriteOnHit(rec, cfg, result) ==
    LET got == [rec EXCEPT !.readResult =
                    [state |-> "returned", error |-> result.error,
                     body |-> result.body]]
    IN  IF IsHit(result)
        THEN ReturnBody([got EXCEPT !.writeCalls = @ + 1], result.body)
        ELSE StartRetrieval(got, cfg)

\* After `await this._resolveCache(context.request)` resolved to result.
AfterRead(rec, cfg, result) ==
    LET got == [rec EXCEPT !.readResult =
                    [state |-> "returned", error |-> result.error,
                     body |-> result.body]]
    IN  IF IsHit(result) THEN ReturnBody(got, result.body)
        ELSE StartRetrieval(got, cfg)

\* cacheOptions.cancelRender, from what the write hook resolved to
\* ("none": no write hook): `?? { cancelRender: false }`.
CancelRender(writeReturn) == writeReturn = "cancelRender:true"

Finish_ErrorFirst(rec) ==
    IF Truthy(rec.retrieval.error) THEN Throw(rec, rec.retrieval.error.v)
    ELSE IF CancelRender(rec.writeReturn) THEN CallNext(rec)
    ELSE ReturnBody(rec, rec.retrieval.body)

\* The end of prerender, once cacheOptions is known.
Finish(rec) ==
    IF CancelRender(rec.writeReturn) THEN CallNext(rec)
    ELSE IF Truthy(rec.retrieval.error) THEN Throw(rec, rec.retrieval.error.v)
    ELSE ReturnBody(rec, rec.retrieval.body)

AfterRetrieval_BodyOnly(rec, cfg) ==
    IF cfg.writeCache
    THEN [rec EXCEPT !.writeCalls = @ + 1,
                     !.writeArgs = [request |-> rec.request,
                                    error |-> JNull,
                                    body |-> rec.retrieval.body],
                     !.pc = "awaitWrite"]
    ELSE Finish(rec)

\* After `await this.getPrerenderedPageResponse(context)`: the write hook is
\* called if there is one.
AfterRetrieval(rec, cfg) ==
    IF cfg.writeCache
    THEN [rec EXCEPT !.writeCalls = @ + 1,
                     !.writeArgs = [request |-> rec.request,
                                    error |-> rec.retrieval.error,
                                    body |-> rec.retrieval.body],
                     !.pc = "awaitWrite"]
    ELSE Finish(rec)

Others == UNCHANGED << config, probe >>

\* The settings after a step that took a call from `before` to `after`: a
\* step that ran the header assembly leaves what the assembly leaves.
SettingsAfter(before, after, cfg) ==
    IF after.retrieveCalls > before.retrieveCalls
    THEN [cfg EXCEPT !.prerenderServerRequestOptions =
                        ConfiguredOptionsAfter(after.request, cfg)]
    ELSE cfg

\* The server calls prerender(context, next) with request q.
Prerender(r, q) ==
    /\ run[r].pc = "idle"
    /\ handled < MaxRequests
    /\ handled' = handled + 1
    /\ run' = [run EXCEPT ![r] = Enter([Idle EXCEPT !.request = q], config)]
    /\ config' = SettingsAfter(Idle, run'[r], config)
    /\ UNCHANGED probe

\* A variant that coalesces: on a miss, a call that finds another call's
\* retrieval of the same URL in flight does not retrieve on its own.
ResolveCacheReturns_Coalesced(r, result) ==
    /\ run[r].pc = "awaitRead"
    /\ run' = [run EXCEPT ![r] =
          IF /\ ~IsHit(result)
             /\ \E s \in DOMAIN run \ {r} :
                   /\ run[s].pc \in {"awaitFetch", "awaitText"}
                   /\ run[s].request.url = run[r].request.url
          THEN [@ EXCEPT !.readResult =
                            [state |-> "returned", error |-> result.error,
                             body |-> result.body],
                         !.retrieval = Returned(JNull, JStr("<html>")),
                         !.pc = "retrieved"]
          ELSE AfterRead(@, config, result)]
    /\ UNCHANGED handled /\ Others

\* The cache read hook resolves.
ResolveCacheReturns(r, result) ==
    /\ run[r].pc = "awaitRead"
    /\ run' = [run EXCEPT ![r] = AfterRead(@, config, result)]
    /\ config' = SettingsAfter(run[r], run'[r], config)
    /\ UNCHANGED << handled, probe >>

\* The cache read hook rejects.
ResolveCacheRejects(r, message) ==
    /\ run[r].pc = "awaitRead"
    /\ run' = [run EXCEPT ![r] =
                  Throw([@ EXCEPT !.readResult.state = "rejected"], message)]
    /\ UNCHANGED handled /\ Others

\* fetch resolves with a response of some status.
FetchResolves(r, status) ==
    /\ run[r].pc = "awaitFetch"
    /\ run' = [run EXCEPT ![r].status = status, ![r].pc = "awaitText"]
    /\ UNCHANGED handled /\ Others

\* fetch rejects: the catch block returns.
FetchRejects(r, message) ==
    /\ run[r].pc = "awaitFetch"
    /\ run' = [run EXCEPT ![r].fault = "fetch",
                          ![r].thrown = message,
                          ![r].retrieval = [state |-> "returned"] @@ CatchBlock(message),
                          ![r].pc = "retrieved"]
    /\ UNCHANGED handled /\ Others

\* response.text() resolves: return { error: null, body }.
TextResolves(r, text) ==
    /\ run[r].pc = "awaitText"
    /\ run' = [run EXCEPT ![r].text = text,
                          ![r].retrieval = Returned(JNull, JStr(text)),
                          ![r].pc = "retrieved"]
    /\ UNCHANGED handled /\ Others

\* response.text() rejects: the catch block returns.
TextRejects(r, message) ==
    /\ run[r].pc = "awaitText"
    /\ run' = [run EXCEPT ![r].fault = "text",
                          ![r].thrown = message,
                          ![r].retrieval = [state |-> "returned"] @@ CatchBlock(message),
                          ![r].pc = "retrieved"]
    /\ UNCHANGED handled /\ Others

\* prerender resumes after the retrieval attempt.
Retrieved(r) ==
    /\ run[r].pc = "retrieved"
    /\ run' = [run EXCEPT ![r] = AfterRetrieval(@, config)]
    /\ UNCHANGED handled /\ Others

\* The cache write hook resolves.
WriteCacheReturns(r, ret) ==
    /\ run[r].pc = "awaitWrite"
    /\ run' = [run EXCEPT ![r] = Finish([@ EXCEPT !.writeReturn = ret])]
    /\ UNCHANGED handled /\ Others

\* The cache write hook rejects.
WriteCacheRejects(r, message) ==
    /\ run[r].pc = "awaitWrite"
    /\ run' = [run EXCEPT ![r] = Throw([@ EXCEPT !.writeReturn = "rejected"], message)]
    /\ UNCHANGED handled /\ Others

\* The continuation resolves: prerender returns its result.
NextReturns(r, result) ==
    /\ run[r].pc = "awaitNext"
    /\ run' = [run EXCEPT ![r].outcome = [kind |-> "delegate", value |-> result],
                          ![r].pc = "done"]
    /\ UNCHANGED handled /\ Others

\* The server is done with the request; the slot is free again.
Release(r) ==
    /\ run[r].pc = "done"
    /\ run' = [run EXCEPT ![r] = Idle]
    /\ UNCHANGED handled /\ Others

\* The steps of slot r, for requests drawn from `requests`.
Serve(r, requests) ==
    \/ \E q \in requests : Prerender(r, q)
    \/ \E result \in ReadResults : ResolveCacheReturns(r, result)
    \/ \E m \in Messages : ResolveCacheRejects(r, m)
    \/ \E st \in Statuses : FetchResolves(r, st)
    \/ \E m \in Messages : FetchRejects(r, m)
    \/ \E t \in Texts : TextResolves(r, t)
    \/ \E m \in Messages : TextRejects(r, m)
    \/ Retrieved(r)
    \/ \E ret \in WriteReturns : WriteCacheReturns(r, ret)
    \/ \E m \in Messages : WriteCacheRejects(r, m)
    \/ \E v \in NextResults : NextReturns(r, v)
    \/ Release(r)

Step(r) == Serve(r, Requests)

\* One request at a time.
Next == Step(1)

Spec == Init /\ [][Next]_vars

-----------------------------------------------------------------------------
(* Two calls of prerender in progress at once on the one exported instance, *)
(* both for the same URL, with both hooks configured.                       *)

SameUrlRequests ==
    { Request("GET", "GoogleBot", "host", "/public/x", "", EmptyObject) }

TwoConfigs ==
    [resolveCache : {TRUE}, writeCache : {TRUE},
     whitelist : {NotSet}, blacklist : {NotSet},
     forwardHeaders : {FALSE}, prerenderToken : {""},
     prerenderServiceUrl : {"http://service.prerender.io/"},
     prerenderServerRequestOptions : {NoOptions}]

InitTwo ==
    /\ config \in TwoConfigs
    /\ run = [r \in {1, 2} |-> Idle]
    /\ handled = 0
    /\ probe = NoProbe

\* The awaits of the two calls resolve in any order.
NextTwo == \E r \in {1, 2} : Serve(r, SameUrlRequests)

SpecTwo == InitTwo /\ [][NextTwo]_vars

-----------------------------------------------------------------------------
(* The classifier and the URL builder called on their own, over a wider set *)
(* of requests and settings than the orchestrator is run with.              *)

\* The settings that reach shouldShowPrerenderedPage and buildApiUrl.
ProbeConfigs ==
    [resolveCache : {FALSE}, writeCache : {FALSE},
     whitelist : Whitelists, blacklist : ProbeBlacklists,
     forwardHeaders : {FALSE}, prerenderToken : {""},
     prerenderServiceUrl : {"http://service.prerender.io/"},
     prerenderServerRequestOptions : {NoOptions}]
    \cup
    [resolveCache : {FALSE}, writeCache : {FALSE},
     whitelist : {NotSet}, blacklist : {NotSet},
     forwardHeaders : {FALSE}, prerenderToken : {""},
     prerenderServiceUrl : ProbeServiceUrls,
     prerenderServerRequestOptions : {NoOptions}]

\* The argument of the call is drawn at the start; the call is made once.
InitProbe ==
    /\ config \in ProbeConfigs
    /\ run = [r \in {1} |-> Idle]
    /\ handled = 0
    /\ \E q \in AllRequests :
          probe = [NoProbe EXCEPT !.kind = "argument", !.request = q]

\* this.shouldShowPrerenderedPage(probe.request)
Classify ==
    /\ probe.kind = "argument"
    /\ probe' = [probe EXCEPT
                   !.kind = "classified",
                   !.result = shouldShowPrerenderedPage(probe.request,
                                  config.whitelist, config.blacklist)]
    /\ UNCHANGED << config, run, handled >>

\* this.buildApiUrl(probe.request)
BuildApiUrl ==
    /\ probe.kind = "argument"
    /\ probe' = [probe EXCEPT
                   !.kind = "built",
                   !.api = buildApiUrl(probe.request,
                                       config.prerenderServiceUrl)]
    /\ UNCHANGED << config, run, handled >>

NextProbe ==
    \/ Classify
    \/ BuildApiUrl

SpecProbe == InitProbe /\ [][NextProbe]_vars

-----------------------------------------------------------------------------
(* Properties *)

\* A retrieval attempt of run r has completed.
RetrievalDone(r) == run[r].retrieval.state = "returned"

\* The cache read of run r resolved to a hit, as the specification defines
\* it: the error absent or falsy, the body a non-empty string.
ReadWasHit(r) ==
    /\ run[r].readResult.state = "returned"
    /\ (run[r].readResult.error.t # "string" \/ run[r].readResult.error.v = "")
    /\ run[r].readResult.body.t = "string" /\ run[r].readResult.body.v # ""

\* The cache read of run r resolved to something that is not a hit.
ReadWasMiss(r) == run[r].readResult.state = "returned" /\ ~ReadWasHit(r)

\* C1: within one call of prerender the cache write hook is invoked at most
\* once, only once a retrieval attempt of that call has completed, and never
\* when the cache read was a hit.
C1_WriteOnceAfterRetrieval ==
    \A r \in DOMAIN run :
        /\ run[r].writeCalls <= 1
        /\ run[r].writeCalls > 0 => RetrievalDone(r) /\ run[r].retrieveCalls > 0
        /\ ReadWasHit(r) => run[r].writeCalls = 0

\* C1 witness: the write hook has been invoked after a cache miss.
C1_Witness ==
    \E r \in DOMAIN run :
        run[r].writeCalls = 1 /\ ReadWasMiss(r) /\ run[r].pc = "awaitWrite"

\* C2: with a read hook configured, a hit (error falsy, body non-empty) makes
\* prerender return the cached body with neither the Retriever, fetch, the
\* write hook nor the continuation invoked; any other result of the read
\* hook makes prerender invoke the Retriever.
C2_HitShortCircuits ==
    \A r \in DOMAIN run :
        /\ ReadWasHit(r) =>
              /\ run[r].pc = "done"
              /\ run[r].outcome = [kind |-> "body", value |-> run[r].readResult.body]
              /\ run[r].retrieveCalls = 0 /\ run[r].fetchCalls = 0
              /\ run[r].writeCalls = 0 /\ run[r].nextCalls = 0
        /\ ReadWasMiss(r) => run[r].retrieveCalls = 1
        /\ run[r].readResult.state = "returned" =>
              config.resolveCache /\ run[r].eligible = "true" /\ run[r].readCalls = 1

\* C2 witness: a hit whose error is the empty string has been returned.
C2_Witness ==
    \E r \in DOMAIN run :
        /\ ReadWasHit(r) /\ run[r].readResult.error = JStr("")
        /\ run[r].outcome.kind = "body"

\* The write hook of run r did not ask to cancel: it returned
\* { cancelRender: false }, returned nothing, or is not configured.
NotCancelled(r) ==
    run[r].writeReturn \in {"cancelRender:false", "void"}
        \/ (run[r].writeReturn = "none" /\ ~config.writeCache)

\* C3 (as claimed): when the retrieval returned a non-null error and the
\* write hook did not ask to cancel, prerender ends in a failure carrying
\* exactly that error message.
C3_ErrorPropagates ==
    \A r \in DOMAIN run :
        (/\ run[r].pc = "done"
         /\ RetrievalDone(r)
         /\ run[r].retrieval.error.t # "null"
         /\ NotCancelled(r))
        => run[r].outcome = [kind |-> "failure", value |-> run[r].retrieval.error]

\* C4 (as claimed): prerender ends in a failure only if its retrieval
\* attempt returned an error and the write hook did not ask to cancel; a
\* throwing classifier or a failing cache read hook never makes it fail, and
\* a cache read that carries an error goes on to the retrieval.
C4_OnlyRetrievalErrorsFail ==
    \A r \in DOMAIN run :
        /\ run[r].outcome.kind = "failure" =>
              /\ RetrievalDone(r) /\ run[r].retrieval.error.t = "string"
              /\ ~CancelRender(run[r].writeReturn)
        /\ run[r].eligible = "throws" => run[r].outcome.kind # "failure"
        /\ run[r].readResult.state = "rejected" => run[r].outcome.kind # "failure"
        /\ (run[r].readResult.state = "returned" /\ Truthy(run[r].readResult.error))
              => run[r].retrieveCalls = 1

\* C5: when the write hook returns { cancelRender: true } the continuation
\* is invoked and prerender ends by delegating to it, never in a failure,
\* whatever the retrieval returned; and once a retrieval was attempted the
\* continuation is invoked only after such a return.
C5_CancelDelegates ==
    \A r \in DOMAIN run :
        /\ run[r].writeReturn = "cancelRender:true" =>
              /\ run[r].nextCalls = 1
              /\ run[r].pc \in {"awaitNext", "done"}
              /\ run[r].pc = "done" => run[r].outcome.kind = "delegate"
              /\ run[r].outcome.kind \in {"none", "delegate"}
        /\ (run[r].retrieveCalls > 0 /\ run[r].nextCalls > 0)
              => run[r].writeReturn = "cancelRender:true"

\* C5 witness: the retrieval returned an error, the write hook cancelled and
\* prerender delegated.
C5_Witness ==
    \E r \in DOMAIN run :
        /\ run[r].writeReturn = "cancelRender:true"
        /\ Truthy(run[r].retrieval.error)
        /\ run[r].outcome.kind = "delegate"

\* C6: whatever is thrown while the outbound request is built, by fetch or
\* by the read of the response body is returned as { error: <message>,
\* body: null } and never thrown out of the Retriever; a response that was
\* read, whatever its status, is returned as { error: null, body: <text> }.
C6_RetrieverCatchesAll ==
    \A r \in DOMAIN run :
        /\ run[r].fault # "none" =>
              /\ RetrievalDone(r)
              /\ run[r].retrieval.error = JStr(run[r].thrown)
              /\ run[r].retrieval.body = JNull
        /\ (RetrievalDone(r) /\ run[r].fault = "none") =>
              /\ run[r].status \in Statuses
              /\ run[r].retrieval.error = JNull
              /\ run[r].retrieval.body = JStr(run[r].text)
        /\ (run[r].outcome.kind = "failure" /\ run[r].retrieveCalls > 0)
              => RetrievalDone(r)

\* C6 witness: the read of the body of a 503 response threw and the
\* Retriever returned.
C6_Witness ==
    \E r \in DOMAIN run :
        run[r].fault = "text" /\ run[r].status = 503 /\ run[r].pc = "retrieved"

\* The value of the header sent under `name` (names compared without case),
\* or null when none is sent.
Sent(r, name) ==
    LET hs == run[r].fetchArgs.init.headers
        ks == {k \in DOMAIN hs : toLowerCase(k) = toLowerCase(name)}
    IN  IF ks = {} THEN JNull ELSE hs[CHOOSE k \in ks : TRUE]

\* C7 (as claimed): whatever extra options are configured, the headers sent
\* hold User-Agent with the incoming user-agent, Accept-Encoding "gzip" and,
\* with a token configured, X-Prerender-Token with that token.
C7_AlwaysSetHeadersSent ==
    \A r \in DOMAIN run :
        run[r].fetchCalls > 0 =>
            /\ Sent(r, "User-Agent") = HeadersGet(run[r].request.headers, "user-agent")
            /\ Sent(r, "Accept-Encoding") = JStr("gzip")
            /\ config.prerenderToken # "" =>
                   Sent(r, "X-Prerender-Token") = JStr(config.prerenderToken)

\* C8 (as claimed): with forwardHeaders every incoming header but host is
\* sent under its name with its value and nothing is sent for host; without
\* forwardHeaders only the user-agent is taken from the incoming headers.
C8_HeadersForwarded ==
    \A r \in DOMAIN run :
        (run[r].fetchCalls > 0 /\ ~config.prerenderServerRequestOptions.hasHeaders) =>
            LET incoming == run[r].request.headers
                hs == run[r].fetchArgs.init.headers
            IN  IF config.forwardHeaders
                THEN /\ \A n \in DOMAIN incoming \ {"host"} :
                            Sent(r, n) = JStr(incoming[n])
                     /\ Sent(r, "host") = JNull
                     /\ incoming["host"] \notin DOMAIN hs
                ELSE DOMAIN hs \subseteq
                        {"User-Agent", "Accept-Encoding", "X-Prerender-Token"}

\* C9: the write hook is invoked with the request of the call and with
\* exactly the error and the body the retrieval attempt returned, be it
\* { error: null, body } or { error, body: null }.
C9_WriteGetsRetrievalResult ==
    \A r \in DOMAIN run :
        run[r].writeCalls > 0 =>
            /\ run[r].writeArgs.request = run[r].request
            /\ run[r].writeArgs.error = run[r].retrieval.error
            /\ run[r].writeArgs.body = run[r].retrieval.body
            /\ \/ run[r].retrieval.error = JNull /\ run[r].retrieval.body.t = "string"
               \/ run[r].retrieval.error.t = "string" /\ run[r].retrieval.body = JNull

\* C9 witness: the write hook has been invoked with a failed result.
C9_Witness ==
    \E r \in DOMAIN run :
        /\ run[r].writeCalls = 1 /\ run[r].pc = "awaitWrite"
        /\ run[r].writeArgs.error = JStr("connection refused")
        /\ run[r].writeArgs.body = JNull

\* C10 (as claimed): with the whitelist ["^/public/"] (and no blacklist) a
\* crawler's request for /private/x is not eligible and its request for
\* /public/x is eligible.
C10_WhitelistExample ==
    \A r \in DOMAIN run :
        (/\ config.whitelist = whiteListed(Array(<< "^/public/" >>))
         /\ config.blacklist = NotSet
         /\ run[r].eligible # "none"
         /\ run[r].request.method = "GET"
         /\ IsCrawler(HeadersGet(run[r].request.headers, "user-agent").v))
        => /\ run[r].request.url.pathname = "/private/x" => run[r].eligible = "false"
           /\ run[r].request.url.pathname = "/public/x" => run[r].eligible = "true"

-----------------------------------------------------------------------------
(* Properties of the classifier called on its own (SpecProbe)               *)

ElementsOf(seq) == {seq[i] : i \in 1..Len(seq)}

HasHeader(request, name) == name \in DOMAIN request.headers

Classified == probe.kind = "classified"

\* The request is one the first four rules of the classifier let through.
PassesEarlyRules(request) ==
    /\ request.method \in {"GET", "HEAD"}
    /\ HasHeader(request, "user-agent")
    /\ ~HasHeader(request, "x-prerender")
    /\ \A e \in ElementsOf(EXTENSIONS_TO_IGNORE) :
          ~endsWith(toLowerCase(request.url.pathname), e)

\* Every configured pattern compiles.
PatternsCompile ==
    \A w \in ElementsOf(config.whitelist.items) \cup
              ElementsOf(config.blacklist.items) : RegExpCompiles(w)

\* Some blacklist pattern matches the full URL or the referer.
BlacklistMatches(request) ==
    \E b \in ElementsOf(config.blacklist.items) :
        \/ RegExpTest(b, Href(request.url))
        \/ /\ HasHeader(request, "referer")
           /\ RegExpTest(b, request.headers["referer"])

\* The request passes the configured gates, or none is configured.
PassesGates(request) ==
    /\ PatternsCompile
    /\ config.whitelist.isArray =>
          \E w \in ElementsOf(config.whitelist.items) :
              RegExpTest(w, Href(request.url))
    /\ config.blacklist.isArray => ~BlacklistMatches(request)

\* The query carries a non-empty _escaped_fragment_ parameter.
HasEscapedFragment(request) ==
    /\ Includes(request.url.search, "_escaped_fragment_=")
    /\ ~endsWith(request.url.search, "_escaped_fragment_=")
    /\ ~Includes(request.url.search, "_escaped_fragment_=&")

\* The user agent contains a crawler substring, whatever the case.
HasCrawlerUserAgent(request) ==
    /\ HasHeader(request, "user-agent")
    /\ \E c \in ElementsOf(CRAWLER_USER_AGENTS) :
          Includes(toLowerCase(request.headers["user-agent"]), toLowerCase(c))

C12_IgnoredExtensionNotEligible ==
    (Classified /\ \E e \in ElementsOf(EXTENSIONS_TO_IGNORE) :
                      endsWith(toLowerCase(probe.request.url.pathname), e))
    => probe.result = "false"

\* A crawler asks for /img/logo.PNG with _escaped_fragment_ set, under a
\* whitelist whose pattern does not compile.
C12_Witness ==
    /\ Classified
    /\ probe.request.method = "GET"
    /\ probe.request.url.pathname = "/img/logo.PNG"
    /\ HasCrawlerUserAgent(probe.request)
    /\ HasEscapedFragment(probe.request)
    /\ config.whitelist.isArray /\ ~PatternsCompile
    /\ probe.result = "false"

\* C13: with a blacklist configured, a request whose full URL or referer
\* matches some blacklist pattern is not found eligible, whatever the user
\* agent, x-bufferbot, _escaped_fragment_ and the whitelist.
C13_BlacklistedNotEligible ==
    (Classified /\ config.blacklist.isArray /\ BlacklistMatches(probe.request))
    => /\ probe.result # "true"
       /\ PatternsCompile => probe.result = "false"

\* A crawler whose referer is https://x/admin asks for a whitelisted page
\* under blacklist ["/admin"].
C13_Witness ==
    /\ Classified
    /\ config.blacklist = blackListed(Array(<< "/admin" >>))
    /\ config.whitelist = whiteListed(Single("/public/"))
    /\ probe.request.method = "GET"
    /\ HasCrawlerUserAgent(probe.request)
    /\ probe.request.url.pathname = "/public/x"
    /\ HasHeader(probe.request, "referer")
    /\ probe.request.headers["referer"] = "https://x/admin"
    /\ probe.result = "false"

\* C14: under a whitelist set to an empty array no request is eligible;
\* with no whitelist and no blacklist set, a crawler's GET or HEAD request
\* that passes the first four rules is eligible.
C14_EmptyWhitelistRejectsAll ==
    Classified =>
      /\ (config.whitelist.isArray /\ Len(config.whitelist.items) = 0)
            => probe.result = "false"
      /\ (~config.whitelist.isArray /\ ~config.blacklist.isArray
            /\ PassesEarlyRules(probe.request)
            /\ HasCrawlerUserAgent(probe.request))
            => probe.result = "true"

\* A crawler's request for /products/42 is rejected by the empty whitelist.
C14_Witness ==
    /\ Classified
    /\ config.whitelist = whiteListed(Array(<< >>))
    /\ ~config.blacklist.isArray
    /\ PassesEarlyRules(probe.request)
    /\ HasCrawlerUserAgent(probe.request)
    /\ probe.request.url.pathname = "/products/42"
    /\ probe.result = "false"

\* The host the rebuilt URL names: x-forwarded-host if present, else host,
\* as the URL serialises it (in lower case).
ForwardedHost(request) ==
    toLowerCase(IF HasHeader(request, "x-forwarded-host")
                THEN request.headers["x-forwarded-host"]
                ELSE request.headers["host"])

\* The base without its trailing "/", if it has one.
Stem(base) ==
    IF base # "" /\ CharAt(base, Len(base)) = "/"
    THEN SubSeq(base, 1, Len(base) - 1) ELSE base

\* C16: buildApiUrl returns the base, one "/" separator (inserted when the
\* base has no trailing "/", the base's own otherwise) and the rebuilt URL:
\* https, the host of x-forwarded-host if present else of host, the incoming
\* path and query.
C16_ApiUrlShape ==
    probe.kind = "built"
    => /\ ~probe.api.threw
       /\ probe.api.url =
            Stem(config.prerenderServiceUrl) \o "/" \o "https://"
              \o ForwardedHost(probe.request)
              \o probe.request.url.pathname \o probe.request.url.search

\* Base "http://svc", request https://host/a?b=1 with x-forwarded-host: host.
C16_Witness ==
    /\ probe.kind = "built"
    /\ config.prerenderServiceUrl = "http://svc"
    /\ probe.request.url = Url("host", "/a", "?b=1")
    /\ HasHeader(probe.request, "x-forwarded-host")
    /\ probe.request.headers["x-forwarded-host"] = "host"
    /\ probe.api.url = "http://svc/https://host/a?b=1"

-----------------------------------------------------------------------------
(* Properties of prerender (Spec), continued                                *)

\* C15: a request with no user-agent header is found not eligible whatever
\* its method, x-bufferbot header, query and path and whatever the whitelist
\* and the blacklist, and prerender hands it to the continuation: no hook
\* and no retrieval is invoked and the call ends by delegation.
C15_NoUserAgentDelegates ==
    \A r \in DOMAIN run :
        (run[r].pc # "idle" /\ ~HasHeader(run[r].request, "user-agent"))
        => /\ run[r].eligible = "false"
           /\ run[r].nextCalls = 1
           /\ run[r].readCalls = 0
           /\ run[r].retrieveCalls = 0
           /\ run[r].writeCalls = 0
           /\ run[r].pc \in {"awaitNext", "done"}
           /\ run[r].pc = "done" => run[r].outcome.kind = "delegate"

\* A GET without user agent but with x-bufferbot has been delegated, under a
\* whitelist whose pattern does not compile and with both hooks configured.
C15_Witness ==
    \E r \in DOMAIN run :
        /\ run[r].pc = "done"
        /\ run[r].request.method = "GET"
        /\ ~HasHeader(run[r].request, "user-agent")
        /\ HasHeader(run[r].request, "x-bufferbot")
        /\ config.whitelist.isArray /\ ~PatternsCompile
        /\ config.resolveCache /\ config.writeCache
        /\ run[r].outcome.kind = "delegate"

\* C17: within one request the classifier runs before anything else; when
\* it returns false the continuation is invoked and no hook and no retrieval
\* ever is; otherwise the read hook, if configured, is invoked exactly once,
\* the Retriever at most once and only after the read hook resolved to a
\* miss, the write hook only after the Retriever has returned, and the
\* continuation at most once.
C17_SequentialSteps ==
    \A r \in DOMAIN run :
        /\ (run[r].readCalls + run[r].retrieveCalls + run[r].writeCalls
               + run[r].nextCalls > 0) => run[r].eligible \in {"true", "false"}
        /\ run[r].eligible = "false"
             => /\ run[r].nextCalls = 1
                /\ run[r].readCalls = 0
                /\ run[r].retrieveCalls = 0
                /\ run[r].writeCalls = 0
        /\ (run[r].eligible = "true" /\ config.resolveCache)
             => run[r].readCalls = 1
        /\ ~config.resolveCache => run[r].readCalls = 0
        /\ run[r].retrieveCalls <= 1 /\ run[r].fetchCalls <= run[r].retrieveCalls
        /\ (run[r].retrieveCalls = 1 /\ config.resolveCache) => ReadWasMiss(r)
        /\ run[r].writeCalls > 0
             => run[r].retrieveCalls = 1 /\ RetrievalDone(r)
        /\ run[r].nextCalls <= 1

\* A request went through the read hook (a miss), the Retriever and the write
\* hook, which cancelled, and was handed to the continuation.
C17_Witness ==
    \E r \in DOMAIN run :
        /\ run[r].pc = "done"
        /\ run[r].eligible = "true"
        /\ run[r].readCalls = 1 /\ ReadWasMiss(r)
        /\ run[r].retrieveCalls = 1 /\ RetrievalDone(r)
        /\ run[r].writeCalls = 1
        /\ run[r].nextCalls = 1
        /\ run[r].outcome.kind = "delegate"

-----------------------------------------------------------------------------
(* Properties of two concurrent calls (SpecTwo)                             *)

\* How a call that missed the cache ends, from its own results alone.
OwnOutcome(rec) ==
    IF rec.writeReturn = "cancelRender:true" THEN "delegate"
    ELSE IF rec.writeReturn = "rejected" THEN "failure"
    ELSE IF Truthy(rec.retrieval.error) THEN "failure"
    ELSE "body"

\* What each call has done, told from its own history.
EachRetrievesAndWrites ==
    \A r \in DOMAIN run :
        ReadWasMiss(r)
        => /\ run[r].retrieveCalls = 1
           /\ run[r].pc \in {"awaitWrite", "awaitNext", "done"}
                => /\ run[r].writeCalls = 1
                   /\ run[r].writeArgs =
                        [request |-> run[r].request,
                         error |-> run[r].retrieval.error,
                         body |-> run[r].retrieval.body]
           /\ run[r].pc = "done"
                => /\ run[r].outcome.kind = OwnOutcome(run[r])
                   /\ run[r].outcome.kind = "body"
                        => run[r].outcome.value = run[r].retrieval.body
                   /\ (run[r].outcome.kind = "failure"
                         /\ run[r].writeReturn # "rejected")
                        => run[r].outcome.value = run[r].retrieval.error

\* A step of one call leaves the other call as it was.
StepsAreOwn ==
    \A r, s \in DOMAIN run :
        (r # s /\ run'[r] # run[r]) => run'[s] = run[s]

\* C18: there is no coalescing. Of two concurrent eligible requests for the
\* same URL whose cache reads miss, each invokes the Retriever once and the
\* write hook once, with its own retrieval result, and ends as its own read,
\* retrieval and write results say; no step of one changes the other.
C18_NoCoalescing == []EachRetrievesAndWrites /\ [][StepsAreOwn]_vars

\* Both calls, for the same URL, are waiting for their write hooks after
\* retrievals of their own that ended differently.
C18_Witness ==
    /\ DOMAIN run = {1, 2}
    /\ run[1].request.url = run[2].request.url
    /\ \A r \in DOMAIN run :
          /\ run[r].pc = "awaitWrite"
          /\ ReadWasMiss(r)
          /\ run[r].retrieveCalls = 1 /\ run[r].fetchCalls = 1
          /\ run[r].writeCalls = 1
    /\ run[1].retrieval # run[2].retrieval

-----------------------------------------------------------------------------
(* Properties of prerender (Spec): settings and returned bodies             *)

\* C19: no step of any handled request, whatever its outcome, changes the
\* settings: whitelist, blacklist, forwardHeaders, prerenderToken,
\* prerenderServiceUrl and prerenderServerRequestOptions with its headers
\* mapping stay as they were set at startup.
C19_SettingsUnchanged == [][config' = config]_vars

\* A second request has ended after a retrieval whose header assembly ran
\* with configured headers of the same name as one the code sets.
C19_Witness ==
    \E r \in DOMAIN run :
        /\ handled >= 2
        /\ run[r].pc = "done"
        /\ run[r].retrieveCalls = 1 /\ run[r].fetchCalls = 1
        /\ config.prerenderServerRequestOptions.hasHeaders
        /\ "User-Agent" \in DOMAIN config.prerenderServerRequestOptions.headers
        /\ config.prerenderToken # ""

\* C20 (as claimed): whenever prerender ends by returning a body, the value
\* returned is a string: the non-empty cached body of a hit, or the body of
\* a retrieval whose error was null; a null body is never returned.
C20_ReturnedBodyIsString ==
    \A r \in DOMAIN run :
        run[r].outcome.kind = "body"
        => /\ run[r].outcome.value.t = "string"
           /\ \/ /\ ReadWasHit(r)
                 /\ run[r].outcome.value = run[r].readResult.body
                 /\ run[r].outcome.value.v # ""
              \/ /\ RetrievalDone(r)
                 /\ run[r].retrieval.error = JNull
                 /\ run[r].outcome.value = run[r].retrieval.body

=============================================================================
